---- MODULE Spec2Model ----
(***************************************************************************)
(* Model of the `win` crate: type-safe wrappers around a slice of Win32    *)
(* (src/win/src/lib.rs) over the raw binding layer (src/win/src/win_raw.rs)*)
(*                                                                         *)
(* The crate is a library without state of its own.  The state of the      *)
(* model is one caller's view of it: the last operation called, the        *)
(* arguments handed in, what came back, the native calls and prints the    *)
(* operation made (in order), and the calling thread's last-error code,    *)
(* which the operating system keeps between calls.                         *)
(***************************************************************************)
EXTENDS Integers, Sequences, FiniteSets

\* ------------------------------------------------------------------ bounds
\* longest text handed to LPCString::new
MaxLen == 2
\* number of descriptor fields a caller sets after WinClass::default()
MaxAssign == 1

\* ------------------------------------------------------------- value sets
\* characters of a text: NUL and one other character
Chars == {0, 97}
\* heap addresses the allocator may give a String's buffer (never null)
Addrs == {4096, 8192}
\* non-null handle / function-pointer values a caller may hold
Handles == {0, 256}
\* values RegisterClassExA may return (ATOM = u16)
Atoms == {0, 1, 49153}
\* values GetModuleHandleA / CreateWindowExA may return (pointer sized)
NativeHandles == {0, 4096, 4194304}
\* codes a failing native call may leave as the thread's last error
ErrCodes == {87, 1400}
\* what a write to standard output may do to the thread's last-error code:
\* -1 leaves it alone, any other value overwrites it with that value
PrintEffects == {-1, 6}
\* pointer widths of the Windows targets, in bytes
PtrWidths == {4, 8}
\* display-mode codes for ShowWindow
CmdShows == {0, 5}

\* ------------------------------------------------------------ text helper
RECURSIVE SeqsUpTo(_)
SeqsUpTo(n) ==
  IF n = 0 THEN {<<>>}
  ELSE LET prev == SeqsUpTo(n - 1)
       IN  prev \cup {Append(s, c) : s \in {t \in prev : Len(t) = n - 1}, c \in Chars}

Texts == SeqsUpTo(MaxLen)

\* ---------------------------------------------------------------- LPCString
\* LPCString(None)
LPCString_null == [present |-> FALSE, val |-> <<>>, buf |-> 0]

\* LPCString::new without the push: the text is stored as it came
LPCString_new_no_push(val, addr) ==
  IF Len(val) = 0
  THEN [panic |-> TRUE]
  ELSE [panic |-> FALSE, lpc |-> [present |-> TRUE, val |-> val, buf |-> addr]]

\* LPCString::new without the test of the last character: always pushes
LPCString_new_always_push(val, addr) ==
  IF Len(val) = 0
  THEN [panic |-> TRUE]
  ELSE [panic |-> FALSE,
        lpc |-> [present |-> TRUE, val |-> Append(val, 0), buf |-> addr]]

\* LPCString::new with the empty text given a terminator instead of unwrap()
LPCString_new_empty_ok(val, addr) ==
  LET pushed == IF Len(val) = 0 \/ val[Len(val)] # 0 THEN Append(val, 0) ELSE val
  IN  [panic |-> FALSE, lpc |-> [present |-> TRUE, val |-> pushed, buf |-> addr]]

\* LPCString::new(val); addr is where the allocator keeps the final buffer.
\* chars().last() of an empty String is None and unwrap() panics: no wrapper
\* comes back.
LPCString_new(val, addr) ==
  IF Len(val) = 0
  THEN [panic |-> TRUE]
  ELSE LET last_char == val[Len(val)]
           pushed == IF last_char # 0 THEN Append(val, 0) ELSE val
       IN  [panic |-> FALSE, lpc |-> [present |-> TRUE, val |-> pushed, buf |-> addr]]

\* as_cstr with a dangling, non-null pointer for the None variant
as_cstr_dangling(s) == IF s.present THEN s.buf ELSE 1

\* LPCString::as_cstr
as_cstr(s) == IF s.present THEN s.buf ELSE 0

\* every wrapper a caller can hold: null() or a new() that returned
LPCStrings ==
  {LPCString_null} \cup
  {r.lpc : r \in {x \in {LPCString_new(t, a) : t \in Texts, a \in Addrs} : ~x.panic}}

\* ------------------------------------------------------------ bit flags
RECURSIVE BitOr(_, _)
BitOr(a, b) ==
  IF a = 0 THEN b
  ELSE IF b = 0 THEN a
  ELSE (IF a % 2 = 1 \/ b % 2 = 1 THEN 1 ELSE 0) + 2 * BitOr(a \div 2, b \div 2)

WS_CAPTION == 12582912
WS_MAXIMIZEBOX == 65536
WS_MINIMIZEBOX == 131072
WS_OVERLAPPED == 0
WS_SIZEBOX == 262144
WS_SYSMENU == 524288
\* the overlapped-window style with WS_SYSMENU left out
WS_OVERLAPPEDWINDOW_no_sysmenu ==
  BitOr(BitOr(BitOr(BitOr(WS_OVERLAPPED, WS_CAPTION), WS_SIZEBOX),
              WS_MINIMIZEBOX), WS_MAXIMIZEBOX)

WS_OVERLAPPEDWINDOW ==
  BitOr(BitOr(BitOr(BitOr(BitOr(WS_OVERLAPPED, WS_CAPTION), WS_SYSMENU), WS_SIZEBOX),
              WS_MINIMIZEBOX), WS_MAXIMIZEBOX)

\* ------------------------------------------------- raw descriptor layout
\* the struct declared with the small-icon handle next to the other handles
WNDCLASSEXA_Layout_handles_first ==
  << <<"cbSize", "UINT">>,
     <<"style", "UINT">>,
     <<"lpfnWndProc", "WNDPROC">>,
     <<"cbClsExtra", "i32">>,
     <<"cbWndExtra", "i32">>,
     <<"hInstance", "HINSTANCE">>,
     <<"hIcon", "HICON">>,
     <<"hCursor", "HCURSOR">>,
     <<"hbrBackground", "HBRUSH">>,
     <<"hIconSm", "HICON">>,
     <<"lpszMenuName", "LPCSTR">>,
     <<"lpszClassName", "LPCSTR">> >>

\* #[repr(C)] struct WNDCLASSEXA: the fields in declaration order, each with
\* its type alias
WNDCLASSEXA_Layout ==
  << <<"cbSize", "UINT">>,
     <<"style", "UINT">>,
     <<"lpfnWndProc", "WNDPROC">>,
     <<"cbClsExtra", "i32">>,
     <<"cbWndExtra", "i32">>,
     <<"hInstance", "HINSTANCE">>,
     <<"hIcon", "HICON">>,
     <<"hCursor", "HCURSOR">>,
     <<"hbrBackground", "HBRUSH">>,
     <<"lpszMenuName", "LPCSTR">>,
     <<"lpszClassName", "LPCSTR">>,
     <<"hIconSm", "HICON">> >>

\* the type aliases of win_raw.rs: u32 and i32 take four bytes, every handle,
\* string pointer and Option<extern fn> is one pointer
TypeSize(t, pb) == IF t \in {"UINT", "i32"} THEN 4 ELSE pb

AlignUp(n, a) == ((n + a - 1) \div a) * a

\* repr(C): each field at the next offset aligned for its type
RECURSIVE EndOffset(_, _, _)
EndOffset(layout, n, pb) ==
  IF n = 0 THEN 0
  ELSE AlignUp(EndOffset(layout, n - 1, pb), TypeSize(layout[n][2], pb))
       + TypeSize(layout[n][2], pb)

RECURSIVE MaxAlign(_, _, _)
MaxAlign(layout, n, pb) ==
  IF n = 0 THEN 1
  ELSE LET m == MaxAlign(layout, n - 1, pb)
           a == TypeSize(layout[n][2], pb)
       IN  IF a > m THEN a ELSE m

\* mem::size_of::<WNDCLASSEXA>() as UINT (twelve fields of at most eight bytes:
\* the cast to u32 keeps the value)
size_of_WNDCLASSEXA(pb) ==
  AlignUp(EndOffset(WNDCLASSEXA_Layout, Len(WNDCLASSEXA_Layout), pb),
          MaxAlign(WNDCLASSEXA_Layout, Len(WNDCLASSEXA_Layout), pb))

\* ------------------------------------------------------------- WinClass
\* impl Default for WinClass
WinClass_default ==
  [style |-> 0, win_proc |-> 0, cls_extra |-> 0, win_extra |-> 0,
   h_instance |-> 0, h_icon |-> 0, h_cursor |-> 0, h_br_background |-> 0,
   menu_name |-> LPCString_null, class_name |-> LPCString_null,
   h_icon_small |-> 0]

WinClassFields == DOMAIN WinClass_default

\* values a caller may assign to a pub field of its descriptor
FieldValues(f) ==
  CASE f = "style" -> {3}
    [] f = "win_proc" -> {4198400}
    [] f = "cls_extra" -> {8}
    [] f = "win_extra" -> {-16}
    [] f = "h_instance" -> {256}
    [] f = "h_icon" -> {512}
    [] f = "h_cursor" -> {768}
    [] f = "h_br_background" -> {1024}
    [] f = "h_icon_small" -> {1280}
    [] OTHER -> LPCStrings \ {LPCString_null}

\* two live Strings never share a buffer
OwnBuffers(c) ==
  (c.menu_name.present /\ c.class_name.present) => c.menu_name.buf # c.class_name.buf

RECURSIVE Assigned(_)
Assigned(n) ==
  IF n = 0 THEN {WinClass_default}
  ELSE LET prev == Assigned(n - 1)
       IN  prev \cup {[c EXCEPT ![f] = v] : c \in prev, <<f, v>> \in
                        UNION {{<<g, w>> : w \in FieldValues(g)} : g \in WinClassFields}}

\* the descriptors a caller builds: default(), then up to MaxAssign fields set
WinClasses == {c \in Assigned(MaxAssign) : OwnBuffers(c)}

\* a struct literal as it lies in memory: field by field in layout order
InLayout(init) ==
  [i \in 1..Len(WNDCLASSEXA_Layout) |->
     [name |-> WNDCLASSEXA_Layout[i][1],
      type |-> WNDCLASSEXA_Layout[i][2],
      value |-> init[WNDCLASSEXA_Layout[i][1]]]]

\* WNDCLASSEXA::new with the two icon handles taken from each other's field
WNDCLASSEXA_new_swapped(wrapper, pb) ==
  InLayout([cbSize |-> size_of_WNDCLASSEXA(pb),
            style |-> wrapper.style,
            lpfnWndProc |-> wrapper.win_proc,
            cbClsExtra |-> wrapper.cls_extra,
            cbWndExtra |-> wrapper.win_extra,
            hInstance |-> wrapper.h_instance,
            hIcon |-> wrapper.h_icon_small,
            hCursor |-> wrapper.h_cursor,
            hbrBackground |-> wrapper.h_br_background,
            lpszMenuName |-> as_cstr(wrapper.menu_name),
            lpszClassName |-> as_cstr(wrapper.class_name),
            hIconSm |-> wrapper.h_icon])

\* WNDCLASSEXA::new(wrapper)
WNDCLASSEXA_new(wrapper, pb) ==
  LET init == [cbSize |-> size_of_WNDCLASSEXA(pb),
               style |-> wrapper.style,
               lpfnWndProc |-> wrapper.win_proc,
               cbClsExtra |-> wrapper.cls_extra,
               cbWndExtra |-> wrapper.win_extra,
               hInstance |-> wrapper.h_instance,
               hIcon |-> wrapper.h_icon,
               hCursor |-> wrapper.h_cursor,
               hbrBackground |-> wrapper.h_br_background,
               lpszMenuName |-> as_cstr(wrapper.menu_name),
               lpszClassName |-> as_cstr(wrapper.class_name),
               hIconSm |-> wrapper.h_icon_small]
  IN  InLayout(init)

\* ------------------------------------------------- externally visible steps
Ev(call, a, ret) == [call |-> call, args |-> a, ret |-> ret]

\* println!: the write may or may not touch the thread's last-error code
println(le, effect) == IF effect = -1 THEN le ELSE effect

\* a native call that returns its failure value records why
SetLastError(le, ret, err) == IF ret = 0 THEN err ELSE le

Ok(v) == [kind |-> "Ok", value |-> v]
Err(v) == [kind |-> "Err", value |-> v]
NoResult == [kind |-> "None", value |-> 0]
Panicked == [kind |-> "Panic", value |-> 0]

\* WinClass::convert(&self)
convert(self, pb, le, effect) ==
  [ret |-> WNDCLASSEXA_new(self, pb),
   self |-> self,
   trace |-> <<Ev("println", <<self.h_instance>>, 0)>>,
   last_error |-> println(le, effect)]

\* get_last_error with the code it wraps never assigned from the native call
get_last_error_unset(le) ==
  [trace |-> <<Ev("GetLastError", <<>>, le)>>, result |-> 0, last_error |-> le]

\* get_last_error()
get_last_error(le) ==
  [trace |-> <<Ev("GetLastError", <<>>, le)>>, result |-> le, last_error |-> le]

\* register_class(class); os is what the environment does during the call
register_class(class, pb, le, os) ==
  LET conv == convert(class, pb, le, os.effect)
      ret == os.ret
      le2 == SetLastError(conv.last_error, ret, os.err)
      t2 == conv.trace \o <<Ev("RegisterClassExA", <<conv.ret>>, ret)>>
  IN  IF ret = 0
      THEN LET g == get_last_error(le2)
           IN  [trace |-> t2 \o g.trace, result |-> Err(g.result),
                last_error |-> g.last_error, class |-> conv.self, raw |-> conv.ret]
      ELSE [trace |-> t2, result |-> Ok(ret),
            last_error |-> le2, class |-> conv.self, raw |-> conv.ret]

\* get_module_handle without the test of the raw handle
get_module_handle_unchecked(le, os) ==
  [trace |-> <<Ev("GetModuleHandleA", <<0>>, os.ret)>>, result |-> Ok(os.ret),
   last_error |-> SetLastError(le, os.ret, os.err)]

\* get_module_handle()
get_module_handle(le, os) ==
  LET mod_name_cstr == 0
      ret == os.ret
      le2 == SetLastError(le, ret, os.err)
      t2 == <<Ev("GetModuleHandleA", <<mod_name_cstr>>, ret)>>
  IN  IF ret = 0
      THEN LET g == get_last_error(le2)
           IN  [trace |-> t2 \o g.trace, result |-> Err(g.result),
                last_error |-> g.last_error]
      ELSE [trace |-> t2, result |-> Ok(ret), last_error |-> le2]

\* create_window(class_name, window_name, h_instance)
create_window(class_name, window_name, h_instance, le, os) ==
  LET class_name_cstr == as_cstr(class_name)
      window_name_cstr == as_cstr(window_name)
      ret == os.ret
      le2 == SetLastError(le, ret, os.err)
      t2 == <<Ev("CreateWindowExA",
                 <<0, class_name_cstr, window_name_cstr, WS_OVERLAPPEDWINDOW,
                   20, 20, 80, 80, 0, 0, h_instance, 0>>, ret)>>
      t3 == t2 \o <<Ev("println", <<ret>>, 0)>>
      le3 == println(le2, os.effect)
  IN  IF ret = 0
      THEN LET g == get_last_error(le3)
           IN  [trace |-> t3 \o g.trace, result |-> Err(g.result),
                last_error |-> g.last_error]
      ELSE [trace |-> t3, result |-> Ok(ret), last_error |-> le3]

\* show_window(h_window, cmd_show): the BOOL that comes back is dropped
show_window(h_window, cmd_show, le, os) ==
  [trace |-> <<Ev("ShowWindow", <<h_window, cmd_show>>, os.ret)>>,
   result |-> NoResult, last_error |-> le]

\* ------------------------------------------------------------------ state
VARIABLES
  ptrBytes,     \* pointer width of the build target
  last_error,   \* the calling thread's last-error code, kept by the OS
  op,           \* the operation called last
  args,         \* what it was called with
  class,        \* the caller's descriptor after the call
  raw,          \* the raw descriptor the call built (<<>> when none)
  lpc,          \* the LPCStrings the call produced: <<>> or <<wrapper>>
  result,       \* what the call returned
  trace         \* the native calls and prints the call made, in order

vars == <<ptrBytes, last_error, op, args, class, raw, lpc, result, trace>>

Init ==
  /\ ptrBytes \in PtrWidths
  /\ last_error = 0
  /\ op = "start"
  /\ args = [none |-> TRUE]
  /\ class = WinClass_default
  /\ raw = <<>>
  /\ lpc = <<>>
  /\ result = NoResult
  /\ trace = <<>>

\* what the environment may do during a call
OsChoices(rets) == [ret : rets, err : ErrCodes, effect : PrintEffects]

\* the caller is between two calls and holds nothing from the last one
Ready == op = "start"

LPCStringNull ==
  /\ Ready
  /\ op' = "LPCString::null"
  /\ args' = [none |-> TRUE]
  /\ lpc' = <<LPCString_null>>
  /\ result' = NoResult
  /\ UNCHANGED <<ptrBytes, last_error, class, raw, trace>>

LPCStringNew ==
  /\ Ready
  /\ \E val \in Texts, addr \in Addrs :
       LET r == LPCString_new(val, addr)
       IN  /\ op' = "LPCString::new"
           /\ args' = [val |-> val]
           /\ lpc' = IF r.panic THEN <<>> ELSE <<r.lpc>>
           /\ result' = IF r.panic THEN Panicked ELSE NoResult
  /\ UNCHANGED <<ptrBytes, last_error, class, raw, trace>>

WinClassDefault ==
  /\ Ready
  /\ op' = "WinClass::default"
  /\ args' = [none |-> TRUE]
  /\ class' = WinClass_default
  /\ result' = NoResult
  /\ UNCHANGED <<ptrBytes, last_error, lpc, raw, trace>>

Convert ==
  /\ Ready
  /\ \E c \in WinClasses, effect \in PrintEffects :
       LET r == convert(c, ptrBytes, last_error, effect)
       IN  /\ op' = "convert"
           /\ args' = [class |-> c]
           /\ class' = r.self
           /\ raw' = r.ret
           /\ result' = NoResult
           /\ trace' = r.trace
           /\ last_error' = r.last_error
  /\ UNCHANGED <<ptrBytes, lpc>>

GetLastError ==
  /\ Ready
  /\ LET r == get_last_error(last_error)
     IN  /\ op' = "get_last_error"
         /\ args' = [none |-> TRUE]
         /\ result' = Ok(r.result)
         /\ trace' = r.trace
         /\ last_error' = r.last_error
  /\ UNCHANGED <<ptrBytes, class, lpc, raw>>

RegisterClass ==
  /\ Ready
  /\ \E c \in WinClasses, os \in OsChoices(Atoms) :
       LET r == register_class(c, ptrBytes, last_error, os)
       IN  /\ op' = "register_class"
           /\ args' = [class |-> c]
           /\ class' = r.class
           /\ raw' = r.raw
           /\ result' = r.result
           /\ trace' = r.trace
           /\ last_error' = r.last_error
  /\ UNCHANGED <<ptrBytes, lpc>>

GetModuleHandle ==
  /\ Ready
  /\ \E os \in OsChoices(NativeHandles) :
       LET r == get_module_handle(last_error, os)
       IN  /\ op' = "get_module_handle"
           /\ args' = [none |-> TRUE]
           /\ result' = r.result
           /\ trace' = r.trace
           /\ last_error' = r.last_error
  /\ UNCHANGED <<ptrBytes, class, lpc, raw>>

\* two distinct wrappers never share a buffer; the same wrapper may be lent twice
Lendable(a, b) == (a.present /\ b.present /\ a.buf = b.buf) => a = b

CreateWindow ==
  /\ Ready
  /\ \E cn \in LPCStrings, wn \in LPCStrings, h \in Handles,
        os \in OsChoices(NativeHandles) :
       /\ Lendable(cn, wn)
       /\ LET r == create_window(cn, wn, h, last_error, os)
          IN  /\ op' = "create_window"
              /\ args' = [class_name |-> cn, window_name |-> wn, h_instance |-> h]
              /\ result' = r.result
              /\ trace' = r.trace
              /\ last_error' = r.last_error
  /\ UNCHANGED <<ptrBytes, class, lpc, raw>>

ShowWindow ==
  /\ Ready
  /\ \E h \in NativeHandles, cmd \in CmdShows, os \in [ret : BOOLEAN] :
       LET r == show_window(h, cmd, last_error, os)
       IN  /\ op' = "show_window"
           /\ args' = [h_window |-> h, cmd_show |-> cmd]
           /\ result' = r.result
           /\ trace' = r.trace
           /\ last_error' = r.last_error
  /\ UNCHANGED <<ptrBytes, class, lpc, raw>>

\* the caller is done with what the call gave back: its values go out of
\* scope; the thread's last-error code stays as the call left it
Drop ==
  /\ ~Ready
  /\ op' = "start"
  /\ args' = [none |-> TRUE]
  /\ class' = WinClass_default
  /\ raw' = <<>>
  /\ lpc' = <<>>
  /\ result' = NoResult
  /\ trace' = <<>>
  /\ UNCHANGED <<ptrBytes, last_error>>

Next ==
  \/ LPCStringNull
  \/ LPCStringNew
  \/ WinClassDefault
  \/ Convert
  \/ GetLastError
  \/ RegisterClass
  \/ GetModuleHandle
  \/ CreateWindow
  \/ ShowWindow
  \/ Drop

Spec == Init /\ [][Next]_vars

\* ------------------------------------------------------------ claim helpers
Wrapping == {"register_class", "get_module_handle", "create_window"}

PrimaryCall(o) ==
  CASE o = "register_class" -> "RegisterClassExA"
    [] o = "get_module_handle" -> "GetModuleHandleA"
    [] o = "create_window" -> "CreateWindowExA"
    [] o = "show_window" -> "ShowWindow"

\* positions of the calls of one native entry point in the last operation
Calls(name) == {i \in DOMAIN trace : trace[i].call = name}

\* the raw value the operation's native call returned
RawResult == trace[CHOOSE i \in Calls(PrimaryCall(op)) : TRUE].ret

Field(r, name) == r[CHOOSE i \in DOMAIN r : r[i].name = name].value

PtrOf(s) == IF s.present THEN s.buf ELSE 0

RECURSIVE TrailingNuls(_)
TrailingNuls(s) ==
  IF Len(s) = 0 \/ s[Len(s)] # 0 THEN 0 ELSE 1 + TrailingNuls(SubSeq(s, 1, Len(s) - 1))

\* every LPCString the caller holds in this state
Held ==
  {lpc[i] : i \in DOMAIN lpc}
  \cup {class.menu_name, class.class_name}
  \cup (IF op = "create_window" THEN {args.class_name, args.window_name} ELSE {})

HandleTypes == {"HINSTANCE", "HICON", "HCURSOR", "HBRUSH"}

\* ------------------------------------------------------------------ claims

\* C1: register_class, get_module_handle and create_window return Err if and
\* only if the raw result of their native call is the sentinel 0; otherwise
\* they return Ok wrapping exactly the raw result.
C1_ErrIffSentinel ==
  op \in Wrapping =>
    /\ Cardinality(Calls(PrimaryCall(op))) = 1
    /\ (result.kind = "Err") <=> (RawResult = 0)
    /\ RawResult # 0 => result = Ok(RawResult)

\* create_window over a stub that returns 0x1000 gives Ok(0x1000); the names
\* are "a\0" wrappers
C1_Witness ==
  /\ op = "create_window"
  /\ args.class_name.val = <<97, 0>>
  /\ args.window_name.val = <<97, 0>>
  /\ RawResult = 4096
  /\ result = Ok(4096)

\* C2: when one of the three operations fails, the ErrorCode it returns is
\* the value a GetLastError call returned, and that call was made after the
\* failing native call.
C2_ErrCarriesLastError ==
  (op \in Wrapping /\ result.kind = "Err") =>
    \E i \in Calls(PrimaryCall(op)), j \in Calls("GetLastError") :
      /\ i < j
      /\ trace[i].ret = 0
      /\ result.value = trace[j].ret
      /\ Calls("GetLastError") = {j}

\* register_class over a stub that returns 0, with the error query giving 1400
C2_Witness ==
  /\ op = "register_class"
  /\ args.class.class_name.present
  /\ RawResult = 0
  /\ trace[Len(trace)] = Ev("GetLastError", <<>>, 1400)
  /\ result = Err(1400)

\* C3: for a non-empty text whose last character is not NUL, LPCString::new
\* stores exactly the text followed by one NUL.
C3_AppendsOneTerminator ==
  (op = "LPCString::new" /\ Len(args.val) > 0 /\ args.val[Len(args.val)] # 0) =>
    /\ Len(lpc) = 1
    /\ lpc[1].present
    /\ lpc[1].val = args.val \o <<0>>

C3_Witness ==
  /\ op = "LPCString::new"
  /\ args.val = <<97, 97>>
  /\ Len(lpc) = 1
  /\ lpc[1].val = <<97, 97, 0>>

\* C4 as stated: every present LPCString ends in exactly one NUL.
C4_ExactlyOneTerminator ==
  \A s \in Held : s.present => TrailingNuls(s.val) = 1

\* C4 as amended: a text that already ends in NUL is stored unchanged (no NUL
\* is appended), so the stored form has as many trailing NULs as the text;
\* every present LPCString ends in at least one NUL, and a wrapper made by
\* LPCString::new ends in exactly one unless the text ended in two or more.
C4_NoDoubleTermination ==
  /\ \A s \in Held : s.present => TrailingNuls(s.val) >= 1
  /\ (op = "LPCString::new" /\ Len(lpc) = 1) =>
       /\ args.val[Len(args.val)] = 0 => lpc[1].val = args.val
       /\ TrailingNuls(lpc[1].val) =
            (IF TrailingNuls(args.val) = 0 THEN 1 ELSE TrailingNuls(args.val))

C4_Witness ==
  /\ op = "LPCString::new"
  /\ args.val = <<97, 0>>
  /\ Len(lpc) = 1
  /\ lpc[1].val = <<97, 0>>

\* C5: LPCString::new of the empty text aborts and yields no wrapper; for
\* every non-empty text it returns a present wrapper without failing.
C5_EmptyAborts ==
  op = "LPCString::new" =>
    IF Len(args.val) = 0
    THEN result.kind = "Panic" /\ lpc = <<>>
    ELSE result.kind # "Panic" /\ Len(lpc) = 1 /\ lpc[1].present

C5_Witness ==
  /\ op = "LPCString::new"
  /\ args.val = <<>>
  /\ result = Panicked
  /\ lpc = <<>>

\* C6: convert of WinClass::default() gives a raw struct whose cbSize is the
\* struct's byte size (80 with 8-byte pointers, 48 with 4-byte pointers) and
\* whose every other field is 0, the two string pointers included.
C6_DefaultConvertsToZero ==
  (op = "convert" /\ args.class = WinClass_default) =>
    /\ Len(raw) = 12
    /\ Field(raw, "cbSize") = (IF ptrBytes = 8 THEN 80 ELSE 48)
    /\ \A i \in DOMAIN raw : raw[i].name # "cbSize" => raw[i].value = 0

C6_Witness ==
  /\ op = "convert"
  /\ args.class = WinClass_default
  /\ ~args.class.menu_name.present
  /\ Field(raw, "lpszMenuName") = 0
  /\ Field(raw, "cbSize") = 80

\* C7 as stated: the raw descriptor is laid out as size field, style,
\* procedure pointer, two extra-byte counts, five handles, two string
\* pointers (the string pointers are the last two fields).
C7_HandlesBeforeStrings ==
  raw # <<>> =>
    /\ Len(raw) = 12
    /\ raw[1].name = "cbSize" /\ raw[2].name = "style"
    /\ raw[3].type = "WNDPROC"
    /\ raw[4].type = "i32" /\ raw[5].type = "i32"
    /\ \A i \in 6..10 : raw[i].type \in HandleTypes
    /\ \A i \in 11..12 : raw[i].type = "LPCSTR"

\* C7 as amended: size field, style, procedure pointer, two extra-byte
\* counts, four handles (instance, icon, cursor, background brush), two
\* string pointers (menu name, class name), and the small-icon handle last.
C7_FieldOrder ==
  raw # <<>> =>
    /\ [i \in DOMAIN raw |-> raw[i].name] =
         <<"cbSize", "style", "lpfnWndProc", "cbClsExtra", "cbWndExtra",
           "hInstance", "hIcon", "hCursor", "hbrBackground",
           "lpszMenuName", "lpszClassName", "hIconSm">>
    /\ raw[3].type = "WNDPROC"
    /\ raw[4].type = "i32" /\ raw[5].type = "i32"
    /\ \A i \in 6..9 : raw[i].type \in HandleTypes
    /\ \A i \in 10..11 : raw[i].type = "LPCSTR"
    /\ raw[12].type \in HandleTypes

C7_Witness ==
  /\ op = "register_class"
  /\ Len(raw) = 12
  /\ raw[12].name = "hIconSm"
  /\ raw[12].value = 1280

\* C8: convert and register_class never abort, leave the descriptor as it
\* was handed in, and every raw field but cbSize holds the raw value of the
\* descriptor field of the same name; register_class hands that struct to
\* the native call.
C8_FieldsCopiedOneToOne ==
  op \in {"convert", "register_class"} =>
    /\ result.kind # "Panic"
    /\ class = args.class
    /\ Field(raw, "style") = class.style
    /\ Field(raw, "lpfnWndProc") = class.win_proc
    /\ Field(raw, "cbClsExtra") = class.cls_extra
    /\ Field(raw, "cbWndExtra") = class.win_extra
    /\ Field(raw, "hInstance") = class.h_instance
    /\ Field(raw, "hIcon") = class.h_icon
    /\ Field(raw, "hCursor") = class.h_cursor
    /\ Field(raw, "hbrBackground") = class.h_br_background
    /\ Field(raw, "lpszMenuName") = PtrOf(class.menu_name)
    /\ Field(raw, "lpszClassName") = PtrOf(class.class_name)
    /\ Field(raw, "hIconSm") = class.h_icon_small
    /\ op = "register_class" =>
         \A i \in Calls("RegisterClassExA") : trace[i].args = <<raw>>

C8_Witness ==
  /\ op = "register_class"
  /\ args.class.h_icon_small = 1280
  /\ args.class.h_icon = 0
  /\ Field(raw, "hIconSm") = 1280
  /\ Field(raw, "hIcon") = 0

\* C9: every create_window calls CreateWindowExA exactly once, with
\* ext-style 0, the caller's class-name pointer, then the caller's
\* window-name pointer, style 0x00CF0000, x 20, y 20, width 80, height 80,
\* null parent, null menu, the caller's instance handle, null parameter.
C9_CreateWindowArguments ==
  op = "create_window" =>
    /\ Cardinality(Calls("CreateWindowExA")) = 1
    /\ \A i \in Calls("CreateWindowExA") :
         trace[i].args =
           <<0, PtrOf(args.class_name), PtrOf(args.window_name), 13565952,
             20, 20, 80, 80, 0, 0, args.h_instance, 0>>

C9_Witness ==
  /\ op = "create_window"
  /\ args.class_name.present
  /\ args.window_name.present
  /\ args.class_name.buf # args.window_name.buf
  /\ args.h_instance = 256
  /\ Cardinality(Calls("CreateWindowExA")) = 1

\* C10: in the three wrapping operations the native call is made exactly
\* once; GetLastError is called only when it returned the sentinel, exactly
\* once, and as the very next externally visible step (no native call and no
\* print in between); show_window never calls GetLastError.
C10_ErrorQueryFollowsFailure ==
  /\ op \in Wrapping =>
       /\ Cardinality(Calls(PrimaryCall(op))) = 1
       /\ \A i \in Calls(PrimaryCall(op)) :
            Calls("GetLastError") = (IF trace[i].ret = 0 THEN {i + 1} ELSE {})
  /\ op = "show_window" => Calls("GetLastError") = {}
====
